---- MODULE Spec2Model ----
(***************************************************************************)
(* create_model.py: generator of an ArchiMate exchange document for a      *)
(* datacenter topology.  main validates three integers and calls           *)
(* build_model, which fills the elements and relationships sections,       *)
(* then the organization folder and the property definitions, and writes   *)
(* the tree.                                                               *)
(*                                                                         *)
(* Identifiers are modelled as sequences of one-character strings, so that *)
(* the f-string formatting ({i:04d}) is computed digit by digit and        *)
(* equality of identifiers is equality of the strings the code produces.   *)
(***************************************************************************)
EXTENDS Integers, Sequences, FiniteSets, TLC

\* ---- bounds of the explored inputs
MaxServers == 3
MaxClusters == 2
MaxWorkers == 2
\* half-width of the windows of indices formatted around 10^3 and 10^4
FmtSpan == 2

\* ---- literal strings of the source, character by character
\* "id-loc-dc1"
id_loc ==
    <<"i", "d", "-", "l", "o", "c", "-", "d", "c", "1">>

\* "id-techsvc-portfolio"
id_svc_portfolio ==
    <<"i", "d", "-", "t", "e", "c", "h", "s", "v", "c", "-", "p", "o", "r", "t", "f", "o", "l", "i", "o">>

\* "id-techsvc-k8s"
id_svc_k8s ==
    <<"i", "d", "-", "t", "e", "c", "h", "s", "v", "c", "-", "k", "8", "s">>

\* "id-net-core"
id_net_core ==
    <<"i", "d", "-", "n", "e", "t", "-", "c", "o", "r", "e">>

\* "id-vlan20-server"
id_vlan_server ==
    <<"i", "d", "-", "v", "l", "a", "n", "2", "0", "-", "s", "e", "r", "v", "e", "r">>

\* "id-vlan30-mgmt"
id_vlan_mgmt ==
    <<"i", "d", "-", "v", "l", "a", "n", "3", "0", "-", "m", "g", "m", "t">>

\* "r-loc-contains-core"
r_loc_contains_core ==
    <<"r", "-", "l", "o", "c", "-", "c", "o", "n", "t", "a", "i", "n", "s", "-", "c", "o", "r", "e">>

\* "r-core-agg-vlan20"
r_core_agg_vlan20 ==
    <<"r", "-", "c", "o", "r", "e", "-", "a", "g", "g", "-", "v", "l", "a", "n", "2", "0">>

\* "r-core-agg-vlan30"
r_core_agg_vlan30 ==
    <<"r", "-", "c", "o", "r", "e", "-", "a", "g", "g", "-", "v", "l", "a", "n", "3", "0">>

\* "pd-count"
pd_count ==
    <<"p", "d", "-", "c", "o", "u", "n", "t">>

\* "pd-tech"
pd_tech ==
    <<"p", "d", "-", "t", "e", "c", "h">>

\* "id-dev-srv-"
SrvPrefix ==
    <<"i", "d", "-", "d", "e", "v", "-", "s", "r", "v", "-">>

\* "id-node-k8s-cluster-"
ClusterPrefix ==
    <<"i", "d", "-", "n", "o", "d", "e", "-", "k", "8", "s", "-", "c", "l", "u", "s", "t", "e", "r", "-">>

\* "id-dev-k8s-worker-"
WorkerPrefix ==
    <<"i", "d", "-", "d", "e", "v", "-", "k", "8", "s", "-", "w", "o", "r", "k", "e", "r", "-">>

\* "r-srv-"
RSrvPrefix ==
    <<"r", "-", "s", "r", "v", "-">>

\* "r-k8s-"
RK8sPrefix ==
    <<"r", "-", "k", "8", "s", "-">>

\* "r-wk-"
RWkPrefix ==
    <<"r", "-", "w", "k", "-">>

\* "-vlan"
SufVlan ==
    <<"-", "v", "l", "a", "n">>

\* "-portfolio"
SufPortfolio ==
    <<"-", "p", "o", "r", "t", "f", "o", "l", "i", "o">>

\* "-realize"
SufRealize ==
    <<"-", "r", "e", "a", "l", "i", "z", "e">>

\* "-core"
SufCore ==
    <<"-", "c", "o", "r", "e">>

\* "-cluster"
SufCluster ==
    <<"-", "c", "l", "u", "s", "t", "e", "r">>

\* "-"
Hyphen ==
    <<"-">>

\* ---- widths of the zero-padded indices in the f-strings
SrvWidth == 4
IdxWidth == 3

\* ---- formatting: what f"{n:0{width}d}" produces for n >= 0
DigitChar(d) ==
    <<"0", "1", "2", "3", "4", "5", "6", "7", "8", "9">>[d + 1]

RECURSIVE Digits(_)
Digits(n) ==
    IF n < 10 THEN <<DigitChar(n)>>
    ELSE Digits(n \div 10) \o <<DigitChar(n % 10)>>

Fill(k, ch) ==
    [j \in 1..k |-> ch]

\* variant: "{n:{width}d}", which pads with spaces
FormatSpacePadded(n, width) ==
    LET d == Digits(n)
    IN  IF Len(d) >= width THEN d ELSE Fill(width - Len(d), " ") \o d

\* a width is a minimum: a longer number is never truncated
Format0d(n, width) ==
    LET d == Digits(n)
    IN  IF Len(d) >= width THEN d ELSE Fill(width - Len(d), "0") \o d

\* ---- identifiers built inside the loops
ServerId(n) ==
    SrvPrefix \o Format0d(n, SrvWidth)

ClusterId(n) ==
    ClusterPrefix \o Format0d(n, IdxWidth)

\* variant: the cluster index left out of the worker identifier
WorkerIdNoCluster(n, m) ==
    WorkerPrefix \o Format0d(m, IdxWidth)

WorkerId(n, m) ==
    WorkerPrefix \o Format0d(n, IdxWidth) \o Hyphen \o Format0d(m, IdxWidth)

RelSrvVlanId(n) ==
    RSrvPrefix \o Format0d(n, SrvWidth) \o SufVlan

RelSrvPortfolioId(n) ==
    RSrvPrefix \o Format0d(n, SrvWidth) \o SufPortfolio

RelK8sRealizeId(n) ==
    RK8sPrefix \o Format0d(n, IdxWidth) \o SufRealize

RelK8sCoreId(n) ==
    RK8sPrefix \o Format0d(n, IdxWidth) \o SufCore

RelWkClusterId(n, m) ==
    RWkPrefix \o Format0d(n, IdxWidth) \o Hyphen \o Format0d(m, IdxWidth) \o SufCluster

RelWkVlanId(n, m) ==
    RWkPrefix \o Format0d(n, IdxWidth) \o Hyphen \o Format0d(m, IdxWidth) \o SufVlan

\* the technology value of server n
ServerTech(n) ==
    IF n % 2 = 0 THEN "x86_64, Linux" ELSE "x86_64, Windows"

\* ---- the tree builders
\* ET.SubElement(parent, "element", ...) with its name child: appended last
make_element(parent, identifier, element_type, name_de) ==
    Append(parent, [identifier |-> identifier, type |-> element_type,
                    name |-> name_de, properties |-> <<>>])

\* appends one property to the element el (the properties child is created
\* on the first call)
add_property(el, prop_def_ref, value) ==
    [el EXCEPT !.properties =
        Append(@, [propertyDefinitionRef |-> prop_def_ref, value |-> value])]

\* make_element followed by add_property on the element it returned
make_element_with_property(parent, identifier, element_type, name_de, ref, value) ==
    LET made == make_element(parent, identifier, element_type, name_de)
    IN  [made EXCEPT ![Len(made)] = add_property(@, ref, value)]

\* variant: source and target stored the wrong way round
make_relationship_swapped(parent, identifier, rel_type, source, target) ==
    Append(parent, [identifier |-> identifier, type |-> rel_type,
                    source |-> target, target |-> source])

make_relationship(parent, identifier, rel_type, source, target) ==
    Append(parent, [identifier |-> identifier, type |-> rel_type,
                    source |-> source, target |-> target])

propdef(parent, pid, pname) ==
    Append(parent, [identifier |-> pid, type |-> "string", name |-> pname])

\* ---- state
VARIABLES
    args,           \* the parsed command line: servers, k8s_clusters, k8s_workers_per_cluster
    pc,             \* position in main / build_model
    exit_msg,       \* the SystemExit message, "" while none was raised
    model,          \* tags of the children of the root element, in document order
    elements,       \* children of the elements section
    relationships,  \* children of the relationships section
    server_ids, cluster_ids, worker_ids,
    i, c, w,        \* loop variables (0 before the first iteration)
    folder,         \* identifierRef of the items of the organization folder
    prop_defs,      \* children of the propertyDefinitions section
    output          \* the lines of the written file, <<>> while no file exists

vars ==
    <<args, pc, exit_msg, model, elements, relationships, server_ids,
      cluster_ids, worker_ids, i, c, w, folder, prop_defs, output>>

\* what build_model has not touched yet
Blank ==
    /\ exit_msg = ""
    /\ model = <<>>
    /\ elements = <<>>
    /\ relationships = <<>>
    /\ server_ids = <<>>
    /\ cluster_ids = <<>>
    /\ worker_ids = <<>>
    /\ i = 0
    /\ c = 0
    /\ w = 0
    /\ folder = <<>>
    /\ prop_defs = <<>>
    /\ output = <<>>

\* argparse has parsed three integers (type=int), of either sign
Init ==
    /\ args \in [servers : -1..MaxServers,
                 k8s_clusters : -1..MaxClusters,
                 k8s_workers_per_cluster : -1..MaxWorkers]
    /\ pc = "main"
    /\ Blank

n_servers == args.servers
n_k8s_clusters == args.k8s_clusters
k8s_workers_per_cluster == args.k8s_workers_per_cluster

\* variant: the first check written as servers < 0
mainServersNonNegative ==
    /\ pc = "main"
    /\ IF args.servers < 0
         THEN /\ exit_msg' = "ERROR: --servers must be >= 1"
              /\ pc' = "exit"
         ELSE IF args.k8s_clusters < 1
         THEN /\ exit_msg' = "ERROR: --k8s-clusters must be >= 1"
              /\ pc' = "exit"
         ELSE IF args.k8s_workers_per_cluster < 0
         THEN /\ exit_msg' = "ERROR: --k8s-workers-per-cluster must be >= 0"
              /\ pc' = "exit"
         ELSE /\ pc' = "build_model"
              /\ UNCHANGED exit_msg
    /\ UNCHANGED <<args, model, elements, relationships, server_ids,
                   cluster_ids, worker_ids, i, c, w, folder, prop_defs, output>>

\* ---- main: the three range checks, then the call
main ==
    /\ pc = "main"
    /\ IF args.servers < 1
         THEN /\ exit_msg' = "ERROR: --servers must be >= 1"
              /\ pc' = "exit"
         ELSE IF args.k8s_clusters < 1
         THEN /\ exit_msg' = "ERROR: --k8s-clusters must be >= 1"
              /\ pc' = "exit"
         ELSE IF args.k8s_workers_per_cluster < 0
         THEN /\ exit_msg' = "ERROR: --k8s-workers-per-cluster must be >= 0"
              /\ pc' = "exit"
         ELSE /\ pc' = "build_model"
              /\ UNCHANGED exit_msg
    /\ UNCHANGED <<args, model, elements, relationships, server_ids,
                   cluster_ids, worker_ids, i, c, w, folder, prop_defs, output>>

\* everything but pc and the named section
OnlyElements ==
    UNCHANGED <<args, exit_msg, model, relationships, server_ids, cluster_ids,
                worker_ids, i, c, w, folder, prop_defs, output>>

OnlyRelationships ==
    UNCHANGED <<args, exit_msg, model, elements, server_ids, cluster_ids,
                worker_ids, i, c, w, folder, prop_defs, output>>

\* variant: the two sections attached to the root before name and documentation
RootSectionsFirst ==
    /\ pc = "build_model"
    /\ model' = <<"elements", "relationships", "name", "documentation">>
    /\ pc' = "loc"
    /\ UNCHANGED <<args, exit_msg, elements, relationships, server_ids,
                   cluster_ids, worker_ids, i, c, w, folder, prop_defs, output>>

\* ---- build_model: root, name, documentation, elements, relationships
Root ==
    /\ pc = "build_model"
    /\ model' = <<"name", "documentation", "elements", "relationships">>
    /\ pc' = "loc"
    /\ UNCHANGED <<args, exit_msg, elements, relationships, server_ids,
                   cluster_ids, worker_ids, i, c, w, folder, prop_defs, output>>

\* ---- core, services, networks
MakeLoc ==
    /\ pc = "loc"
    /\ elements' = make_element(elements, id_loc, "Location", <<"Rechenzentrum DC1">>)
    /\ pc' = "portfolio"
    /\ OnlyElements

MakePortfolio ==
    /\ pc = "portfolio"
    /\ elements' = make_element_with_property(elements, id_svc_portfolio,
                        "TechnologyService", <<"Service-Portfolio (250 Services)">>,
                        pd_count, "250")
    /\ pc' = "svc_k8s"
    /\ OnlyElements

MakeSvcK8s ==
    /\ pc = "svc_k8s"
    /\ elements' = make_element(elements, id_svc_k8s, "TechnologyService",
                                <<"Containerplattform (Kubernetes)">>)
    /\ pc' = "net_core"
    /\ OnlyElements

MakeNetCore ==
    /\ pc = "net_core"
    /\ elements' = make_element(elements, id_net_core, "CommunicationNetwork",
                                <<"Core Netzwerk">>)
    /\ pc' = "vlan_server"
    /\ OnlyElements

MakeVlanServer ==
    /\ pc = "vlan_server"
    /\ elements' = make_element(elements, id_vlan_server, "CommunicationNetwork",
                                <<"VLAN 20 - Server">>)
    /\ pc' = "vlan_mgmt"
    /\ OnlyElements

MakeVlanMgmt ==
    /\ pc = "vlan_mgmt"
    /\ elements' = make_element(elements, id_vlan_mgmt, "CommunicationNetwork",
                                <<"VLAN 30 - Management">>)
    /\ pc' = "rel_loc_core"
    /\ OnlyElements

RelLocCore ==
    /\ pc = "rel_loc_core"
    /\ relationships' = make_relationship(relationships, r_loc_contains_core,
                                          "Composition", id_loc, id_net_core)
    /\ pc' = "rel_core_vlan20"
    /\ OnlyRelationships

RelCoreVlan20 ==
    /\ pc = "rel_core_vlan20"
    /\ relationships' = make_relationship(relationships, r_core_agg_vlan20,
                                          "Aggregation", id_net_core, id_vlan_server)
    /\ pc' = "rel_core_vlan30"
    /\ OnlyRelationships

RelCoreVlan30 ==
    /\ pc = "rel_core_vlan30"
    /\ relationships' = make_relationship(relationships, r_core_agg_vlan30,
                                          "Aggregation", id_net_core, id_vlan_mgmt)
    /\ pc' = "servers"
    /\ OnlyRelationships

\* variant: range(1, n_servers), one server short
ServerLoopShort ==
    /\ pc = "servers"
    /\ IF i < n_servers - 1
         THEN /\ i' = i + 1
              /\ pc' = "srv_element"
         ELSE /\ pc' = "clusters"
              /\ UNCHANGED i
    /\ UNCHANGED <<args, exit_msg, model, elements, relationships, server_ids,
                   cluster_ids, worker_ids, c, w, folder, prop_defs, output>>

\* ---- servers: for i in range(1, n_servers + 1)
ServerLoop ==
    /\ pc = "servers"
    /\ IF i < n_servers
         THEN /\ i' = i + 1
              /\ pc' = "srv_element"
         ELSE /\ pc' = "clusters"
              /\ UNCHANGED i
    /\ UNCHANGED <<args, exit_msg, model, elements, relationships, server_ids,
                   cluster_ids, worker_ids, c, w, folder, prop_defs, output>>

SrvElement ==
    /\ pc = "srv_element"
    /\ server_ids' = Append(server_ids, ServerId(i))
    /\ elements' = make_element_with_property(elements, ServerId(i), "Device",
                        <<"Server ">> \o Format0d(i, SrvWidth), pd_tech, ServerTech(i))
    /\ pc' = "srv_rel_vlan"
    /\ UNCHANGED <<args, exit_msg, model, relationships, cluster_ids,
                   worker_ids, i, c, w, folder, prop_defs, output>>

SrvRelVlan ==
    /\ pc = "srv_rel_vlan"
    /\ relationships' = make_relationship(relationships, RelSrvVlanId(i),
                                          "Association", ServerId(i), id_vlan_server)
    /\ pc' = "srv_rel_portfolio"
    /\ OnlyRelationships

SrvRelPortfolio ==
    /\ pc = "srv_rel_portfolio"
    /\ relationships' = make_relationship(relationships, RelSrvPortfolioId(i),
                                          "Realization", ServerId(i), id_svc_portfolio)
    /\ pc' = "servers"
    /\ OnlyRelationships

\* ---- clusters: for c in range(1, n_k8s_clusters + 1)
ClusterLoop ==
    /\ pc = "clusters"
    /\ IF c < n_k8s_clusters
         THEN /\ c' = c + 1
              /\ pc' = "cl_element"
         ELSE /\ pc' = "organizations"
              /\ UNCHANGED c
    /\ UNCHANGED <<args, exit_msg, model, elements, relationships, server_ids,
                   cluster_ids, worker_ids, i, w, folder, prop_defs, output>>

ClElement ==
    /\ pc = "cl_element"
    /\ cluster_ids' = Append(cluster_ids, ClusterId(c))
    /\ elements' = make_element_with_property(elements, ClusterId(c), "Node",
                        <<"Kubernetes Cluster ">> \o Format0d(c, IdxWidth),
                        pd_tech, "Kubernetes")
    /\ pc' = "cl_rel_realize"
    /\ UNCHANGED <<args, exit_msg, model, relationships, server_ids,
                   worker_ids, i, c, w, folder, prop_defs, output>>

ClRelRealize ==
    /\ pc = "cl_rel_realize"
    /\ relationships' = make_relationship(relationships, RelK8sRealizeId(c),
                                          "Realization", ClusterId(c), id_svc_k8s)
    /\ pc' = "cl_rel_core"
    /\ OnlyRelationships

\* the worker loop of this cluster starts afresh after the second edge
ClRelCore ==
    /\ pc = "cl_rel_core"
    /\ relationships' = make_relationship(relationships, RelK8sCoreId(c),
                                          "Association", ClusterId(c), id_net_core)
    /\ w' = 0
    /\ pc' = "workers"
    /\ UNCHANGED <<args, exit_msg, model, elements, server_ids, cluster_ids,
                   worker_ids, i, c, folder, prop_defs, output>>

\* ---- workers: for w in range(1, k8s_workers_per_cluster + 1)
WorkerLoop ==
    /\ pc = "workers"
    /\ IF w < k8s_workers_per_cluster
         THEN /\ w' = w + 1
              /\ pc' = "wk_element"
         ELSE /\ pc' = "clusters"
              /\ UNCHANGED w
    /\ UNCHANGED <<args, exit_msg, model, elements, relationships, server_ids,
                   cluster_ids, worker_ids, i, c, folder, prop_defs, output>>

WkElement ==
    /\ pc = "wk_element"
    /\ worker_ids' = Append(worker_ids, WorkerId(c, w))
    /\ elements' = make_element_with_property(elements, WorkerId(c, w), "Device",
                        <<"K8s Worker ">> \o Format0d(c, IdxWidth) \o Hyphen
                            \o Format0d(w, IdxWidth),
                        pd_tech, "Linux Worker Node")
    /\ pc' = "wk_rel_cluster"
    /\ UNCHANGED <<args, exit_msg, model, relationships, server_ids,
                   cluster_ids, i, c, w, folder, prop_defs, output>>

\* variant: the edge to the cluster aimed at the next cluster's identifier
WkRelClusterNext ==
    /\ pc = "wk_rel_cluster"
    /\ relationships' = make_relationship(relationships, RelWkClusterId(c, w),
                                          "Association", WorkerId(c, w), ClusterId(c + 1))
    /\ pc' = "wk_rel_vlan"
    /\ OnlyRelationships

WkRelCluster ==
    /\ pc = "wk_rel_cluster"
    /\ relationships' = make_relationship(relationships, RelWkClusterId(c, w),
                                          "Association", WorkerId(c, w), ClusterId(c))
    /\ pc' = "wk_rel_vlan"
    /\ OnlyRelationships

WkRelVlan ==
    /\ pc = "wk_rel_vlan"
    /\ relationships' = make_relationship(relationships, RelWkVlanId(c, w),
                                          "Association", WorkerId(c, w), id_vlan_server)
    /\ pc' = "workers"
    /\ OnlyRelationships

\* variant: the loop over worker_ids left out
OrgRefsNoWorkers(servers, clusters, workers) ==
    <<id_loc, id_svc_portfolio, id_svc_k8s, id_net_core, id_vlan_server, id_vlan_mgmt>>
        \o servers \o clusters

\* variant: the loop over cluster_ids placed before the loop over server_ids
OrgRefsClustersFirst(servers, clusters, workers) ==
    <<id_loc, id_svc_portfolio, id_svc_k8s, id_net_core, id_vlan_server, id_vlan_mgmt>>
        \o clusters \o servers \o workers

\* ---- organization folder: the six fixed references, then the three lists
OrgRefs(servers, clusters, workers) ==
    <<id_loc, id_svc_portfolio, id_svc_k8s, id_net_core, id_vlan_server, id_vlan_mgmt>>
        \o servers \o clusters \o workers

Organizations ==
    /\ pc = "organizations"
    /\ model' = Append(model, "organizations")
    /\ folder' = OrgRefs(server_ids, cluster_ids, worker_ids)
    /\ pc' = "prop_defs"
    /\ UNCHANGED <<args, exit_msg, elements, relationships, server_ids,
                   cluster_ids, worker_ids, i, c, w, prop_defs, output>>

\* variant: only pd-count declared
PropertyDefinitionsCountOnly ==
    /\ pc = "prop_defs"
    /\ model' = Append(model, "propertyDefinitions")
    /\ prop_defs' = propdef(prop_defs, pd_count, "count")
    /\ pc' = "write"
    /\ UNCHANGED <<args, exit_msg, elements, relationships, server_ids,
                   cluster_ids, worker_ids, i, c, w, folder, output>>

\* ---- property definitions
PropertyDefinitions ==
    /\ pc = "prop_defs"
    /\ model' = Append(model, "propertyDefinitions")
    /\ prop_defs' = propdef(propdef(prop_defs, pd_count, "count"), pd_tech, "technology")
    /\ pc' = "write"
    /\ UNCHANGED <<args, exit_msg, elements, relationships, server_ids,
                   cluster_ids, worker_ids, i, c, w, folder, output>>

\* ---- tree.write: the root, then each child of the root in the order it was
\* attached, each followed by its own children
Line(depth, tag, ref) ==
    [depth |-> depth, tag |-> tag, ref |-> ref]

SectionLines(tag, els, rels, fld, pds) ==
    CASE tag = "elements" ->
            [k \in 1..Len(els) |-> Line(2, "element", els[k].identifier)]
      [] tag = "relationships" ->
            [k \in 1..Len(rels) |-> Line(2, "relationship", rels[k].identifier)]
      [] tag = "organizations" ->
            <<Line(2, "item", <<>>), Line(3, "label", <<>>)>>
                \o [k \in 1..Len(fld) |-> Line(3, "item", fld[k])]
      [] tag = "propertyDefinitions" ->
            [k \in 1..Len(pds) |-> Line(2, "propertyDefinition", pds[k].identifier)]
      [] OTHER -> <<>>

RECURSIVE ChildrenLines(_, _, _, _, _)
ChildrenLines(children, els, rels, fld, pds) ==
    IF children = <<>> THEN <<>>
    ELSE <<Line(1, Head(children), <<>>)>>
            \o SectionLines(Head(children), els, rels, fld, pds)
            \o ChildrenLines(Tail(children), els, rels, fld, pds)

Serialize(children, els, rels, fld, pds) ==
    <<Line(0, "model", <<>>)>> \o ChildrenLines(children, els, rels, fld, pds)

Write ==
    /\ pc = "write"
    /\ output' = Serialize(model, elements, relationships, folder, prop_defs)
    /\ pc' = "done"
    /\ UNCHANGED <<args, exit_msg, model, elements, relationships, server_ids,
                   cluster_ids, worker_ids, i, c, w, folder, prop_defs>>

Next ==
    \/ main
    \/ Root
    \/ MakeLoc
    \/ MakePortfolio
    \/ MakeSvcK8s
    \/ MakeNetCore
    \/ MakeVlanServer
    \/ MakeVlanMgmt
    \/ RelLocCore
    \/ RelCoreVlan20
    \/ RelCoreVlan30
    \/ ServerLoop
    \/ SrvElement
    \/ SrvRelVlan
    \/ SrvRelPortfolio
    \/ ClusterLoop
    \/ ClElement
    \/ ClRelRealize
    \/ ClRelCore
    \/ WorkerLoop
    \/ WkElement
    \/ WkRelCluster
    \/ WkRelVlan
    \/ Organizations
    \/ PropertyDefinitions
    \/ Write

Spec == Init /\ [][Next]_vars

\* ---- the identifier formatting on its own: the loops at large indices.
\* The loop variables are drawn from windows around 1 and around the first
\* index that no longer fits the width; each action is the statement that
\* formats the identifier and appends it to its list.
ServerSamples ==
    (1..FmtSpan) \cup ((10^SrvWidth - FmtSpan)..(10^SrvWidth + FmtSpan))

IndexSamples ==
    (1..FmtSpan) \cup ((10^IdxWidth - FmtSpan)..(10^IdxWidth + FmtSpan))

FmtInit ==
    /\ i \in ServerSamples
    /\ c \in IndexSamples
    /\ w \in IndexSamples
    /\ args = [servers |-> i, k8s_clusters |-> c, k8s_workers_per_cluster |-> w]
    /\ pc = "format"
    /\ exit_msg = ""
    /\ model = <<>>
    /\ elements = <<>>
    /\ relationships = <<>>
    /\ server_ids = <<>>
    /\ cluster_ids = <<>>
    /\ worker_ids = <<>>
    /\ folder = <<>>
    /\ prop_defs = <<>>
    /\ output = <<>>

FmtServer ==
    /\ pc = "format"
    /\ server_ids = <<>>
    /\ server_ids' = Append(server_ids, ServerId(i))
    /\ UNCHANGED <<args, pc, exit_msg, model, elements, relationships,
                   cluster_ids, worker_ids, i, c, w, folder, prop_defs, output>>

FmtCluster ==
    /\ pc = "format"
    /\ cluster_ids = <<>>
    /\ cluster_ids' = Append(cluster_ids, ClusterId(c))
    /\ UNCHANGED <<args, pc, exit_msg, model, elements, relationships,
                   server_ids, worker_ids, i, c, w, folder, prop_defs, output>>

FmtWorker ==
    /\ pc = "format"
    /\ worker_ids = <<>>
    /\ worker_ids' = Append(worker_ids, WorkerId(c, w))
    /\ UNCHANGED <<args, pc, exit_msg, model, elements, relationships,
                   server_ids, cluster_ids, i, c, w, folder, prop_defs, output>>

FmtNext ==
    \/ FmtServer
    \/ FmtCluster
    \/ FmtWorker

FmtSpec == FmtInit /\ [][FmtNext]_vars

\* ---- vocabulary of the properties
S == args.servers
C == args.k8s_clusters
W == args.k8s_workers_per_cluster

Valid ==
    S >= 1 /\ C >= 1 /\ W >= 0

ElementIds ==
    {elements[k].identifier : k \in DOMAIN elements}

HasPrefix(s, p) ==
    Len(s) >= Len(p) /\ SubSeq(s, 1, Len(p)) = p

ElementsOfType(t) ==
    {k \in DOMAIN elements : elements[k].type = t}

ServerElements ==
    {k \in ElementsOfType("Device") : HasPrefix(elements[k].identifier, SrvPrefix)}

WorkerElements ==
    {k \in ElementsOfType("Device") : HasPrefix(elements[k].identifier, WorkerPrefix)}

RelsOfType(t) ==
    {k \in DOMAIN relationships : relationships[k].type = t}

RelsFrom(src) ==
    {k \in DOMAIN relationships : relationships[k].source = src}

Rels(t, src, tgt) ==
    {k \in DOMAIN relationships :
        /\ relationships[k].type = t
        /\ relationships[k].source = src
        /\ relationships[k].target = tgt}

\* the workers attached to the cluster element at position k
WorkersOf(k) ==
    {j \in WorkerElements :
        Rels("Association", elements[j].identifier, elements[k].identifier) # {}}

\* C1: identifiers of elements are pairwise distinct, identifiers of
\* relationships are pairwise distinct, and no relationship shares its
\* identifier with an element.
C1_DistinctIdentifiers ==
    /\ \A a, b \in DOMAIN elements :
          elements[a].identifier = elements[b].identifier => a = b
    /\ \A a, b \in DOMAIN relationships :
          relationships[a].identifier = relationships[b].identifier => a = b
    /\ \A a \in DOMAIN relationships :
          relationships[a].identifier \notin ElementIds

C1_Witness ==
    pc = "done" /\ S >= 2 /\ C >= 2 /\ W >= 2

\* C2: in every state of the assembly, each relationship built so far has a
\* source and a target that are identifiers of elements already in the
\* elements section.
C2_NoDanglingAtAnyStep ==
    \A k \in DOMAIN relationships :
        /\ relationships[k].source \in ElementIds
        /\ relationships[k].target \in ElementIds

C2_Witness ==
    pc = "wk_rel_vlan" /\ c >= 2 /\ w >= 2

\* C3: in the finished model every reference of the organization folder is
\* the identifier of an element, and every element identifier is referenced
\* by exactly one item of the folder.
C3_OrganizationCoversElementsOnce ==
    pc = "done" =>
        /\ \A k \in DOMAIN folder : folder[k] \in ElementIds
        /\ \A e \in DOMAIN elements :
              Cardinality({k \in DOMAIN folder : folder[k] = elements[e].identifier}) = 1

C3_Witness ==
    pc = "done" /\ S >= 2 /\ C >= 2 /\ W >= 1 /\ Len(folder) = 6 + S + C + C * W

\* C4: the finished model holds exactly S server devices, C nodes and C * W
\* worker devices, W of them attached to each cluster, next to 1 location,
\* 2 technology services and 3 communication networks.
C4_Cardinalities ==
    pc = "done" =>
        /\ Cardinality(ServerElements) = S
        /\ Cardinality(ElementsOfType("Node")) = C
        /\ Cardinality(WorkerElements) = C * W
        /\ \A k \in ElementsOfType("Node") : Cardinality(WorkersOf(k)) = W
        /\ Cardinality(ElementsOfType("Device")) = S + C * W
        /\ Cardinality(ElementsOfType("Location")) = 1
        /\ Cardinality(ElementsOfType("TechnologyService")) = 2
        /\ Cardinality(ElementsOfType("CommunicationNetwork")) = 3
        /\ Len(elements) = 6 + S + C + C * W

C4_Witness ==
    pc = "done" /\ S >= 3 /\ C >= 2 /\ W >= 2 /\ Cardinality(WorkerElements) = C * W

\* C5: in the finished model every property of every element refers to a
\* declared property definition, and the declared definitions are exactly
\* pd-count and pd-tech, both of type string.
C5_PropertiesResolve ==
    pc = "done" =>
        /\ \A e \in DOMAIN elements : \A p \in DOMAIN elements[e].properties :
              elements[e].properties[p].propertyDefinitionRef
                  \in {prop_defs[k].identifier : k \in DOMAIN prop_defs}
        /\ Len(prop_defs) = 2
        /\ {prop_defs[k].identifier : k \in DOMAIN prop_defs} = {pd_count, pd_tech}
        /\ \A k \in DOMAIN prop_defs : prop_defs[k].type = "string"

C5_Witness ==
    /\ pc = "done"
    /\ W >= 1
    /\ \E e \in DOMAIN elements : \E p \in DOMAIN elements[e].properties :
          elements[e].properties[p].propertyDefinitionRef = pd_count
    /\ \E e \in WorkerElements : \E p \in DOMAIN elements[e].properties :
          elements[e].properties[p].propertyDefinitionRef = pd_tech

\* C6: with a parameter out of range the run ends in the validation error
\* with build_model never entered, nothing built and no file written; with
\* all parameters in range no error is raised, build_model is entered and
\* the run can only end with the file written.
C6_ValidationBeforeConstruction ==
    /\ ~Valid =>
          /\ pc \in {"main", "exit"}
          /\ pc = "exit" <=> exit_msg # ""
          /\ model = <<>> /\ elements = <<>> /\ relationships = <<>>
          /\ folder = <<>> /\ prop_defs = <<>> /\ output = <<>>
    /\ Valid =>
          /\ pc # "exit" /\ exit_msg = ""
          /\ ~ENABLED Next => pc = "done"
          /\ pc = "done" <=> output # <<>>
    /\ ~ENABLED Next => pc \in {"done", "exit"}

C6_Witness ==
    pc = "exit" /\ S >= 1 /\ C >= 1 /\ W < 0

\* C7: in the written document the children of the root are, in this order
\* and once each: name, documentation, elements, relationships,
\* organizations, propertyDefinitions.
TopLevel(lines) ==
    LET top == SelectSeq(lines, LAMBDA l : l.depth = 1)
    IN  [k \in DOMAIN top |-> top[k].tag]

C7_SectionOrder ==
    pc = "done" =>
        TopLevel(output) = <<"name", "documentation", "elements", "relationships",
                             "organizations", "propertyDefinitions">>

C7_Witness ==
    /\ pc = "done"
    /\ S >= 2
    /\ \E a, b \in DOMAIN output :
          a < b /\ output[a].tag = "relationship" /\ output[b].tag = "item"

\* C8: the references of the organization folder of the written document
\* are the six fixed ones, then the servers by index, then the clusters by
\* index, then the workers by cluster and by worker within the cluster;
\* in the elements section each cluster is directly followed by its workers.
FolderRefs(lines) ==
    LET items == SelectSeq(lines, LAMBDA l : l.depth = 3 /\ l.tag = "item")
    IN  [k \in DOMAIN items |-> items[k].ref]

ExpectedFolder ==
    <<id_loc, id_svc_portfolio, id_svc_k8s, id_net_core, id_vlan_server, id_vlan_mgmt>>
        \o [k \in 1..S |-> ServerId(k)]
        \o [k \in 1..C |-> ClusterId(k)]
        \o [k \in 1..(C * W) |-> WorkerId(((k - 1) \div W) + 1, ((k - 1) % W) + 1)]

C8_FolderOrder ==
    pc = "done" =>
        /\ FolderRefs(output) = ExpectedFolder
        /\ \A n \in 1..C :
              /\ elements[6 + S + (n - 1) * (W + 1) + 1].identifier = ClusterId(n)
              /\ \A m \in 1..W :
                    elements[6 + S + (n - 1) * (W + 1) + 1 + m].identifier = WorkerId(n, m)

C8_Witness ==
    /\ pc = "done" /\ S >= 2 /\ C >= 2 /\ W >= 2
    /\ FolderRefs(output) # [k \in DOMAIN elements |-> elements[k].identifier]

\* C10: the finished model holds 1 Composition, 2 Aggregation,
\* S + C + 2*C*W Association and S + C Realization relationships; each
\* server has one Association to the server VLAN and one Realization to the
\* service portfolio, each cluster one Realization to the container platform
\* service and one Association to the core network, each worker one
\* Association to its cluster and one to the server VLAN; with W = 0 no
\* relationship touches a worker.
C10_RelationshipCounts ==
    pc = "done" =>
        /\ Cardinality(RelsOfType("Composition")) = 1
        /\ Cardinality(RelsOfType("Aggregation")) = 2
        /\ Cardinality(RelsOfType("Association")) = S + C + 2 * C * W
        /\ Cardinality(RelsOfType("Realization")) = S + C
        /\ Len(relationships) = 3 + 2 * S + 2 * C + 2 * C * W
        /\ Cardinality(Rels("Composition", id_loc, id_net_core)) = 1
        /\ Cardinality(Rels("Aggregation", id_net_core, id_vlan_server)) = 1
        /\ Cardinality(Rels("Aggregation", id_net_core, id_vlan_mgmt)) = 1
        /\ \A n \in 1..S :
              /\ Cardinality(RelsFrom(ServerId(n))) = 2
              /\ Cardinality(Rels("Association", ServerId(n), id_vlan_server)) = 1
              /\ Cardinality(Rels("Realization", ServerId(n), id_svc_portfolio)) = 1
        /\ \A n \in 1..C :
              /\ Cardinality(RelsFrom(ClusterId(n))) = 2
              /\ Cardinality(Rels("Realization", ClusterId(n), id_svc_k8s)) = 1
              /\ Cardinality(Rels("Association", ClusterId(n), id_net_core)) = 1
              /\ \A m \in 1..W :
                    /\ Cardinality(RelsFrom(WorkerId(n, m))) = 2
                    /\ Cardinality(Rels("Association", WorkerId(n, m), ClusterId(n))) = 1
                    /\ Cardinality(Rels("Association", WorkerId(n, m), id_vlan_server)) = 1
        /\ W = 0 =>
              \A k \in DOMAIN relationships :
                  /\ ~HasPrefix(relationships[k].source, WorkerPrefix)
                  /\ ~HasPrefix(relationships[k].target, WorkerPrefix)
                  /\ ~HasPrefix(relationships[k].identifier, RWkPrefix)

C10_Witness ==
    pc = "done" /\ S >= 2 /\ C >= 2 /\ W >= 1 /\ RelsOfType("Association") # {}

C10_WitnessNoWorkers ==
    pc = "done" /\ S >= 2 /\ C >= 2 /\ W = 0 /\ RelsOfType("Association") # {}

\* ---- C9: the shape of the formatted identifiers
DigitChars ==
    {"0", "1", "2", "3", "4", "5", "6", "7", "8", "9"}

AllDigits(s) ==
    \A k \in DOMAIN s : s[k] \in DigitChars

DigitOf(ch) ==
    CHOOSE d \in 0..9 : DigitChar(d) = ch

RECURSIVE DecValue(_)
DecValue(s) ==
    IF s = <<>> THEN 0
    ELSE 10 * DecValue(SubSeq(s, 1, Len(s) - 1)) + DigitOf(s[Len(s)])

\* the number of decimal digits of n >= 1
NumDigits(n) ==
    CHOOSE k \in 1..12 : 10^(k - 1) <= n /\ n < 10^k

Max(a, b) ==
    IF a >= b THEN a ELSE b

Rest(s, p) ==
    SubSeq(s, Len(p) + 1, Len(s))

\* s is n in decimal, zero-padded on the left to at least width digits
PaddedIndex(s, n, width) ==
    /\ AllDigits(s)
    /\ Len(s) = Max(width, NumDigits(n))
    /\ DecValue(s) = n

\* s is exactly width decimal digits
FixedDigits(s, width) ==
    AllDigits(s) /\ Len(s) = width

\* the two fields of a worker identifier: up to and after the hyphen
WorkerFields(id) ==
    LET r == Rest(id, WorkerPrefix)
        h == CHOOSE k \in DOMAIN r : r[k] = "-" /\ \A j \in 1..(k - 1) : r[j] # "-"
    IN  <<SubSeq(r, 1, h - 1), SubSeq(r, h + 1, Len(r))>>

\* C9 (as stated): every server identifier is id-dev-srv- followed by exactly
\* 4 digits, every cluster identifier id-node-k8s-cluster- followed by
\* exactly 3 digits, every worker identifier id-dev-k8s-worker- followed by
\* exactly 3 digits, a hyphen and exactly 3 digits, whatever the index.
C9_ExactWidth ==
    /\ \A k \in DOMAIN server_ids :
          /\ HasPrefix(server_ids[k], SrvPrefix)
          /\ FixedDigits(Rest(server_ids[k], SrvPrefix), SrvWidth)
    /\ \A k \in DOMAIN cluster_ids :
          /\ HasPrefix(cluster_ids[k], ClusterPrefix)
          /\ FixedDigits(Rest(cluster_ids[k], ClusterPrefix), IdxWidth)
    /\ \A k \in DOMAIN worker_ids :
          /\ HasPrefix(worker_ids[k], WorkerPrefix)
          /\ \E h \in DOMAIN Rest(worker_ids[k], WorkerPrefix) :
                Rest(worker_ids[k], WorkerPrefix)[h] = "-"
          /\ FixedDigits(WorkerFields(worker_ids[k])[1], IdxWidth)
          /\ FixedDigits(WorkerFields(worker_ids[k])[2], IdxWidth)

\* C9 (amended): every server identifier is id-dev-srv- followed by the index
\* in decimal, zero-padded to at least 4 digits (exactly 4 up to 9999, as many
\* digits as the index has from 10000 on); cluster identifiers likewise with
\* at least 3 digits; worker identifiers are id-dev-k8s-worker-, the cluster
\* index padded to at least 3 digits, a hyphen, and the worker index padded
\* to at least 3 digits.
C9_MinimumWidth ==
    /\ \A k \in DOMAIN server_ids :
          /\ HasPrefix(server_ids[k], SrvPrefix)
          /\ PaddedIndex(Rest(server_ids[k], SrvPrefix), i, SrvWidth)
          /\ i < 10^SrvWidth => FixedDigits(Rest(server_ids[k], SrvPrefix), SrvWidth)
    /\ \A k \in DOMAIN cluster_ids :
          /\ HasPrefix(cluster_ids[k], ClusterPrefix)
          /\ PaddedIndex(Rest(cluster_ids[k], ClusterPrefix), c, IdxWidth)
          /\ c < 10^IdxWidth => FixedDigits(Rest(cluster_ids[k], ClusterPrefix), IdxWidth)
    /\ \A k \in DOMAIN worker_ids :
          /\ HasPrefix(worker_ids[k], WorkerPrefix)
          /\ \E h \in DOMAIN Rest(worker_ids[k], WorkerPrefix) :
                Rest(worker_ids[k], WorkerPrefix)[h] = "-"
          /\ PaddedIndex(WorkerFields(worker_ids[k])[1], c, IdxWidth)
          /\ PaddedIndex(WorkerFields(worker_ids[k])[2], w, IdxWidth)
          /\ (c < 10^IdxWidth /\ w < 10^IdxWidth) =>
                /\ FixedDigits(WorkerFields(worker_ids[k])[1], IdxWidth)
                /\ FixedDigits(WorkerFields(worker_ids[k])[2], IdxWidth)

C9_Witness ==
    /\ i >= 10^SrvWidth /\ c >= 10^IdxWidth /\ w < 10^IdxWidth
    /\ server_ids # <<>> /\ cluster_ids # <<>> /\ worker_ids # <<>>
    /\ Len(server_ids[1]) = Len(SrvPrefix) + SrvWidth + 1
====
